---- MODULE Spec2Model ----
(***************************************************************************)
(* Order-completed event publishing in the checkout service:               *)
(* the OrderEventPublisher port, the KafkaOrderEventPublisher adapter      *)
(* (adapters/kafka_order_event_publisher.go) over a sarama AsyncProducer,  *)
(* and the NoOpOrderEventPublisher adapter.                                *)
(*                                                                         *)
(* Every goroutine that calls PublishOrderCompleted is a caller; a call is *)
(* at the first select ("queue"), at the select of waitForAcknowledgment   *)
(* ("wait"), or has returned ("done").  The AsyncProducer is the three     *)
(* channels the adapter uses (Input, Successes, Errors) and the broker     *)
(* behind them.                                                            *)
(***************************************************************************)
EXTENDS Integers, Sequences, FiniteSets, TLC

\* ---------------------------------------------------------------- bounds
\* calls of PublishOrderCompleted made in one run, over all callers
MaxCalls == 2

\* ------------------------------------------------------------- constants
Callers == {"c1", "c2"}

\* kafka.Topic
Topic == "orders"

\* a string that is not valid UTF-8 (proto.Marshal rejects it in a proto3 string field)
InvalidUTF8 == "\\xff"

USD(units, nanos) == [currencyCode |-> "USD", units |-> units, nanos |-> nanos]

Address1 ==
    [streetAddress |-> "456 Contract St", city |-> "Test City", state |-> "CA",
     country |-> "USA", zipCode |-> "90210"]

OrderItem(productId, quantity, cost) ==
    [item |-> [productId |-> productId, quantity |-> quantity], cost |-> cost]

\* a nil *pb.Money, *pb.Address, *pb.CartItem
NilMoney == [currencyCode |-> "<nil>", units |-> 0, nanos |-> 0]
NilAddress ==
    [streetAddress |-> "<nil>", city |-> "", state |-> "", country |-> "", zipCode |-> ""]
NilCartItem == [productId |-> "<nil>", quantity |-> 0]

\* pb.OrderResult values handed to the port
\* createOrderResultFromBusinessLogicPatterns()
Order1 ==
    [orderId |-> "order-12345-contract-test", shippingTrackingId |-> "TRACK-CONTRACT-789",
     shippingCost |-> USD(8, 0),
     shippingAddress |-> Address1,
     items |-> << OrderItem("CONTRACT-PRODUCT-001", 2, USD(15, 0)),
                  OrderItem("CONTRACT-PRODUCT-002", 1, USD(25, 0)) >>]

\* the same order with an order id that is not valid UTF-8
OrderBadUTF8 == [Order1 EXCEPT !.orderId = InvalidUTF8]

\* an order without items, &pb.OrderResult{..., Items: nil}
OrderNoItems == [Order1 EXCEPT !.items = <<>>]

Orders == {Order1, OrderBadUTF8}

\* orders a caller can pass although the data model excludes them
UnvalidatedOrders == {OrderNoItems}

\* ----------------------------------------------------------------- codec
\* one field of the protobuf wire form: field number, wire type, payload
VarintField(num, v) == [num |-> num, wt |-> "varint", str |-> "", int |-> v, sub |-> <<>>]
StringField(num, s) == [num |-> num, wt |-> "len", str |-> s, int |-> 0, sub |-> <<>>]
MessageField(num, fields) == [num |-> num, wt |-> "msg", str |-> "", int |-> 0, sub |-> fields]

\* proto3: a scalar field holding its default value is not emitted
OptString(num, s) == IF s = "" THEN <<>> ELSE << StringField(num, s) >>
OptVarint(num, v) == IF v = 0 THEN <<>> ELSE << VarintField(num, v) >>
\* a message field is emitted when the pointer is not nil, also when the message is empty
OptMessage(num, present, fields) == IF present THEN << MessageField(num, fields) >> ELSE <<>>

\* variant: the fraction of an amount is not written
MarshalMoney_DropsNanos(m) ==
    OptString(1, m.currencyCode) \o OptVarint(2, m.units)

MarshalMoney(m) ==
    OptString(1, m.currencyCode) \o OptVarint(2, m.units) \o OptVarint(3, m.nanos)

MarshalAddress(a) ==
    OptString(1, a.streetAddress) \o OptString(2, a.city) \o OptString(3, a.state)
        \o OptString(4, a.country) \o OptString(5, a.zipCode)

\* variant: the quantity is left out of the encoding
MarshalCartItem_DropsQuantity(i) == OptString(1, i.productId)

MarshalCartItem(i) == OptString(1, i.productId) \o OptVarint(2, i.quantity)

MarshalOrderItem(oi) ==
    OptMessage(1, oi.item # NilCartItem, MarshalCartItem(oi.item))
        \o OptMessage(2, oi.cost # NilMoney, MarshalMoney(oi.cost))

RECURSIVE MarshalItems(_)
MarshalItems(items) ==
    IF items = <<>> THEN <<>>
    ELSE << MessageField(5, MarshalOrderItem(Head(items))) >> \o MarshalItems(Tail(items))

OrderStrings(o) ==
    {o.orderId, o.shippingTrackingId, o.shippingCost.currencyCode,
     o.shippingAddress.streetAddress, o.shippingAddress.city, o.shippingAddress.state,
     o.shippingAddress.country, o.shippingAddress.zipCode}
        \cup {o.items[i].item.productId : i \in DOMAIN o.items}
        \cup {o.items[i].cost.currencyCode : i \in DOMAIN o.items}

\* proto.Marshal(order): the bytes, or an error
Marshal(o) ==
    IF InvalidUTF8 \in OrderStrings(o)
    THEN [bytes |-> <<>>, err |-> "string field contains invalid UTF-8"]
    ELSE [bytes |-> OptString(1, o.orderId) \o OptString(2, o.shippingTrackingId)
                        \o OptMessage(3, o.shippingCost # NilMoney, MarshalMoney(o.shippingCost))
                        \o OptMessage(4, o.shippingAddress # NilAddress,
                                      MarshalAddress(o.shippingAddress))
                        \o MarshalItems(o.items),
          err |-> ""]

\* -------------------------------------------------------------- adapters
KafkaAdapters == {"kafka", "kafkaNoProducer"}
NoOpAdapters == {"noop"}
\* a Kafka adapter whose tracer and propagator are otel's no-op defaults and whose
\* logger discards: the observability hooks run and do nothing
QuietAdapters == {"kafkaQuiet"}
\* the adapters that go through the whole of PublishOrderCompleted
HookAdapters == {"kafka"} \cup QuietAdapters

\* KafkaOrderEventPublisher.producer, as given to NewKafkaOrderEventPublisher
producer ==
    [a \in KafkaAdapters \cup QuietAdapters |-> IF a = "kafkaNoProducer" THEN "nil" ELSE "asyncProducer"]

\* --------------------------------------------------------------- results
\* the error value PublishOrderCompleted returns; msg = "" is the nil error
NilError == [msg |-> "", err |-> ""]
Errorf(msg, err) == [msg |-> msg, err |-> err]

ErrMarshal == "failed to marshal order result to protobuf"
ErrQueue == "failed to queue message"
ErrProducer == "kafka producer error"
ErrWaiting == "context cancelled while waiting for kafka acknowledgment"

\* ctx.Err()
CtxErrs == {"context canceled", "context deadline exceeded"}
CtxStates == {"active"} \cup CtxErrs

\* errors the broker reports on Errors()
TransportErrs == {"kafka: broker not available"}

WarnNoProducer == "Kafka producer not configured, skipping order event publication"
InfoPublished == "Successfully published order event"
ErrorPublish == "Failed to publish order event"
WarnCancelled == "Context cancelled while waiting for Kafka acknowledgment"

\* ---------------------------------------------------------------- values
NoOrder ==
    [orderId |-> "", shippingTrackingId |-> "", shippingCost |-> [currencyCode |-> "", units |-> 0, nanos |-> 0],
     shippingAddress |-> [streetAddress |-> "", city |-> "", state |-> "", country |-> "", zipCode |-> ""],
     items |-> <<>>]

NoId == <<>>
NoMsg == [id |-> NoId, Topic |-> "", Key |-> <<>>, Value |-> <<>>, Headers |-> <<>>]
NoAck == [kind |-> "none", id |-> NoId, Offset |-> 0, Err |-> ""]
NoSpan == [state |-> "none", status |-> "Unset", ends |-> 0]

\* a caller that has not called yet
FreshCall ==
    [pc |-> "idle", n |-> 0, adapter |-> "none", order |-> NoOrder, ctx |-> "active",
     message |-> <<>>, encoded |-> FALSE, msg |-> NoMsg, sends |-> 0, reads |-> 0,
     ack |-> NoAck, result |-> NilError, span |-> NoSpan, log |-> {}]

\* ---------------------------------------------------------------- decode
WireTypes == {"varint", "len", "msg"}

\* index of the last field numbered num (the last occurrence wins), 0 when absent
LastField(fields, num) ==
    IF \E i \in DOMAIN fields : fields[i].num = num
    THEN CHOOSE i \in DOMAIN fields :
             /\ fields[i].num = num
             /\ \A j \in DOMAIN fields : fields[j].num = num => j <= i
    ELSE 0

HasField(fields, num) == LastField(fields, num) # 0
\* an absent scalar decodes to its default value
StringOf(fields, num) == IF HasField(fields, num) THEN fields[LastField(fields, num)].str ELSE ""
VarintOf(fields, num) == IF HasField(fields, num) THEN fields[LastField(fields, num)].int ELSE 0
MessageOf(fields, num) == IF HasField(fields, num) THEN fields[LastField(fields, num)].sub ELSE <<>>

UnmarshalMoney(fields) ==
    [currencyCode |-> StringOf(fields, 1), units |-> VarintOf(fields, 2), nanos |-> VarintOf(fields, 3)]

UnmarshalAddress(fields) ==
    [streetAddress |-> StringOf(fields, 1), city |-> StringOf(fields, 2), state |-> StringOf(fields, 3),
     country |-> StringOf(fields, 4), zipCode |-> StringOf(fields, 5)]

UnmarshalCartItem(fields) == [productId |-> StringOf(fields, 1), quantity |-> VarintOf(fields, 2)]

\* an absent message field decodes to a nil pointer
UnmarshalOrderItem(fields) ==
    [item |-> IF HasField(fields, 1) THEN UnmarshalCartItem(MessageOf(fields, 1)) ELSE NilCartItem,
     cost |-> IF HasField(fields, 2) THEN UnmarshalMoney(MessageOf(fields, 2)) ELSE NilMoney]

\* the repeated field 5, in wire order
IsItemsField(f) == f.num = 5
UnmarshalItems(fields) ==
    [i \in DOMAIN SelectSeq(fields, IsItemsField) |->
        UnmarshalOrderItem(SelectSeq(fields, IsItemsField)[i].sub)]

\* proto.Unmarshal(protoBytes, &result): the message, or an error
Unmarshal(bytes) ==
    IF \E i \in DOMAIN bytes : bytes[i].wt \notin WireTypes
    THEN [order |-> NoOrder, err |-> "proto: cannot parse invalid wire-format data"]
    ELSE [order |->
             [orderId |-> StringOf(bytes, 1),
              shippingTrackingId |-> StringOf(bytes, 2),
              shippingCost |-> IF HasField(bytes, 3) THEN UnmarshalMoney(MessageOf(bytes, 3)) ELSE NilMoney,
              shippingAddress |-> IF HasField(bytes, 4) THEN UnmarshalAddress(MessageOf(bytes, 4))
                                  ELSE NilAddress,
              items |-> UnmarshalItems(bytes)],
          err |-> ""]

\* ------------------------------------------------------- structured form
\* JSON values as json.Unmarshal leaves them in a map[string]interface{}
JString(s) == [t |-> "string", s |-> s, n |-> 0, digits |-> <<>>]
JNumber(n) == [t |-> "number", s |-> "", n |-> n, digits |-> <<>>]
\* a JSON string holding the decimal digits of an integer
JDecimal(d) == [t |-> "string", s |-> "", n |-> 0, digits |-> d]
JNull == [t |-> "null", s |-> "", n |-> 0, digits |-> <<>>]

DigitChars == << "0", "1", "2", "3", "4", "5", "6", "7", "8", "9" >>

RECURSIVE Digits(_)
Digits(n) == IF n < 10 THEN << DigitChars[n + 1] >> ELSE Append(Digits(n \div 10), DigitChars[(n % 10) + 1])

\* the decimal text protojson writes for an int64
FormatInt(n) == IF n < 0 THEN << "-" >> \o Digits(0 - n) ELSE Digits(n)

DigitValue(ch) == (CHOOSE i \in DOMAIN DigitChars : DigitChars[i] = ch) - 1

RECURSIVE ParseDigits(_)
ParseDigits(d) ==
    IF Len(d) = 1 THEN DigitValue(d[1])
    ELSE 10 * ParseDigits(SubSeq(d, 1, Len(d) - 1)) + DigitValue(d[Len(d)])

IsDigits(d) == d # <<>> /\ \A i \in DOMAIN d : \E k \in DOMAIN DigitChars : DigitChars[k] = d[i]

\* parseIntFromString: json.Number(s).Int64(), then int(val); ok = FALSE is the nil result
parseIntFromString(d) ==
    IF IsDigits(d) THEN [ok |-> TRUE, val |-> ParseDigits(d)]
    ELSE IF Len(d) > 1 /\ d[1] = "-" /\ IsDigits(Tail(d)) THEN [ok |-> TRUE, val |-> 0 - ParseDigits(Tail(d))]
    ELSE [ok |-> FALSE, val |-> 0]

\* a JSON object is a function from its keys; a key that is not emitted is not in its domain
Key(name, v) == name :> v
\* a proto3 scalar with its default value is written only when emitUnpopulated is set
OptKey(emitUnpopulated, isDefault, name, v) ==
    IF isDefault /\ ~emitUnpopulated THEN <<>> ELSE name :> v
\* a nil message is written as null when emitUnpopulated is set, and left out otherwise
MsgKey(emitUnpopulated, isNil, name, v) ==
    IF ~isNil THEN name :> v
    ELSE IF emitUnpopulated THEN name :> JNull ELSE <<>>

\* protojson writes int64 as a JSON string, int32 and string fields as themselves
JsonMoney(m, emit) ==
    OptKey(emit, m.currencyCode = "", "currencyCode", JString(m.currencyCode))
        @@ OptKey(emit, m.units = 0, "units", JDecimal(FormatInt(m.units)))
        @@ OptKey(emit, m.nanos = 0, "nanos", JNumber(m.nanos))

JsonAddress(a, emit) ==
    OptKey(emit, a.streetAddress = "", "streetAddress", JString(a.streetAddress))
        @@ OptKey(emit, a.city = "", "city", JString(a.city))
        @@ OptKey(emit, a.state = "", "state", JString(a.state))
        @@ OptKey(emit, a.country = "", "country", JString(a.country))
        @@ OptKey(emit, a.zipCode = "", "zipCode", JString(a.zipCode))

JsonCartItem(i, emit) ==
    OptKey(emit, i.productId = "", "productId", JString(i.productId))
        @@ OptKey(emit, i.quantity = 0, "quantity", JNumber(i.quantity))

JsonOrderItem(oi, emit) ==
    MsgKey(emit, oi.item = NilCartItem, "item", JsonCartItem(oi.item, emit))
        @@ MsgKey(emit, oi.cost = NilMoney, "cost", JsonMoney(oi.cost, emit))

\* marshaler.Marshal(orderResult) followed by json.Unmarshal into a map
ProtoJSON(o, emit) ==
    OptKey(emit, o.orderId = "", "orderId", JString(o.orderId))
        @@ OptKey(emit, o.shippingTrackingId = "", "shippingTrackingId", JString(o.shippingTrackingId))
        @@ MsgKey(emit, o.shippingCost = NilMoney, "shippingCost", JsonMoney(o.shippingCost, emit))
        @@ MsgKey(emit, o.shippingAddress = NilAddress, "shippingAddress",
                  JsonAddress(o.shippingAddress, emit))
        @@ OptKey(emit, o.items = <<>>, "items",
                  [i \in DOMAIN o.items |-> JsonOrderItem(o.items[i], emit)])

\* x.(map[string]interface{}) succeeds
IsJsonObject(x) == x # JNull

\* the fix applied to one Money object: a units string that parses becomes a number
FixUnits(money) ==
    IF "units" \in DOMAIN money /\ money["units"].t = "string"
          /\ parseIntFromString(money["units"].digits).ok
    THEN [money EXCEPT !["units"] = JNumber(parseIntFromString(money["units"].digits).val)]
    ELSE money

FixItem(item) ==
    IF "cost" \in DOMAIN item /\ IsJsonObject(item["cost"])
    THEN [item EXCEPT !["cost"] = FixUnits(@)]
    ELSE item

\* variant: only the shipping cost is fixed, the items keep their units strings
fixProtobufSerializationIssues_ShippingOnly(jsonObj) ==
    IF "shippingCost" \in DOMAIN jsonObj /\ IsJsonObject(jsonObj["shippingCost"])
    THEN [jsonObj EXCEPT !["shippingCost"] = FixUnits(@)]
    ELSE jsonObj

\* fixProtobufSerializationIssues
fixProtobufSerializationIssues(jsonObj) ==
    LET withCost ==
            IF "shippingCost" \in DOMAIN jsonObj /\ IsJsonObject(jsonObj["shippingCost"])
            THEN [jsonObj EXCEPT !["shippingCost"] = FixUnits(@)]
            ELSE jsonObj
    IN  IF "items" \in DOMAIN withCost
        THEN [withCost EXCEPT !["items"] = [i \in DOMAIN @ |-> FixItem(@[i])]]
        ELSE withCost

\* convertOrderResultToConsumerFormat: EmitUnpopulated true, UseProtoNames false
convertOrderResultToConsumerFormat(orderResult) ==
    fixProtobufSerializationIssues(ProtoJSON(orderResult, TRUE))

\* ------------------------------------------------------ codec inputs
Item1 == OrderItem("CONTRACT-PRODUCT-001", 2, USD(15, 0))
Item2 == OrderItem("CONTRACT-PRODUCT-002", 1, USD(25, 990000000))

\* events the codec is applied to: zero, small and large amounts, with and without
\* fraction, no item, one item, two items in both orders, with and without address
CodecOrders ==
    { [Order1 EXCEPT !.shippingCost = USD(u, n), !.items = its, !.shippingAddress = a] :
          u \in {0, 8, 1000000007}, n \in {0, 500000000},
          its \in {<<>>, << Item1 >>, << Item1, Item2 >>, << Item2, Item1 >>},
          a \in {Address1, NilAddress} }

\* spec 3: the fields every event must carry
MissingRequiredField(o) ==
    \/ o.orderId = "" \/ o.shippingTrackingId = ""
    \/ o.shippingCost = NilMoney \/ o.shippingCost.currencyCode = ""
    \/ o.shippingAddress = NilAddress
    \/ \E f \in {"streetAddress", "city", "state", "country", "zipCode"} : o.shippingAddress[f] = ""
    \/ o.items = <<>>
    \/ \E i \in DOMAIN o.items :
          \/ o.items[i].item = NilCartItem \/ o.items[i].item.productId = ""
          \/ o.items[i].cost = NilMoney \/ o.items[i].cost.currencyCode = ""

\* spec 3: a valid event
ValidEvent(o) ==
    /\ ~MissingRequiredField(o)
    /\ \A i \in DOMAIN o.items :
          o.items[i].item.quantity > 0 /\ o.items[i].cost.nanos \in 0..999999999
    /\ o.shippingCost.nanos \in 0..999999999

NoCodec ==
    [stage |-> "off", event |-> NoOrder, wire |-> [bytes |-> <<>>, err |-> ""],
     decoded |-> [order |-> NoOrder, err |-> ""], structured |-> <<>>]

\* &MockOrderEventPublisher{publishedOrders: make([]*pb.OrderResult, 0)}; calls is the
\* record of the calls made: the order passed, shouldFail at the call, the result
NoMock == [publishedOrders |-> <<>>, shouldFail |-> FALSE, calls |-> <<>>]

VARIABLES
    codec,       \* the event a codec run converts, and its conversions so far
    call,        \* per caller: the frame of its current (or last) PublishOrderCompleted call
    inputReady,  \* the producer is receiving on Input()
    inputCount,  \* messages the producer has received on Input()
    pending,     \* messages accepted by the producer, not yet acknowledged
    successes,   \* the Successes() channel
    errors,      \* the Errors() channel
    topicLog,    \* the messages appended to the topic, in offset order
    dispatcher,  \* the consumer dispatcher's state
    runCtx,      \* the dispatcher's run context
    offset,      \* messages the dispatcher has received from the topic
    current,     \* the message being processed
    dbContext,   \* the persistence backend: "configured" or "nil"
    db,          \* the committed units of records, in commit order
    consumerLog, \* what the dispatcher logged, one entry per processed message
    mock         \* the MockOrderEventPublisher, and the calls made on it so far

vars ==
    <<codec, call, inputReady, inputCount, pending, successes, errors, topicLog,
      dispatcher, runCtx, offset, current, dbContext, db, consumerLog, mock>>
transport == <<inputReady, inputCount, pending, successes, errors, topicLog>>
consumer == <<dispatcher, runCtx, offset, current, dbContext, db, consumerLog>>
publisher == <<call, inputReady, inputCount, pending, successes, errors, mock>>
\* what the publisher never touches
downstream == <<codec, consumer, mock>>

\* no publisher has been called and the producer has not started
PublisherInit ==
    /\ call = [c \in Callers |-> FreshCall]
    /\ inputReady = FALSE
    /\ inputCount = 0
    /\ pending = {}
    /\ successes = <<>>
    /\ errors = <<>>
    /\ mock = NoMock

\* the dispatcher before StartListening
DispatcherInit ==
    /\ dispatcher = "Idle"
    /\ runCtx = "active"
    /\ offset = 0
    /\ current = NoMsg
    /\ db = <<>>
    /\ consumerLog = <<>>

Init ==
    /\ PublisherInit
    /\ topicLog = <<>>
    /\ codec = NoCodec
    /\ DispatcherInit
    /\ dbContext = "nil"

\* ------------------------------------------------------------ call entry
RECURSIVE CallsOf(_)
CallsOf(cs) ==
    IF cs = {} THEN 0
    ELSE LET c == CHOOSE x \in cs : TRUE IN call[c].n + CallsOf(cs \ {c})

\* calls started so far
CallsMade == CallsOf(Callers)

CanCall(c) == call[c].pc \in {"idle", "done"} /\ CallsMade < MaxCalls

\* the frame of a new call of caller c on adapter a
Enter(c, a, ctx, order) ==
    [FreshCall EXCEPT !.n = call[c].n + 1, !.adapter = a, !.ctx = ctx, !.order = order]

\* variant: the stub reports that nothing was published
NoOpPublishOrderCompleted_Fails(c, ctx, order) ==
    /\ CanCall(c)
    /\ call' = [call EXCEPT ![c] = [Enter(c, "noop", ctx, order) EXCEPT
                                      !.pc = "done", !.result = Errorf("publisher not configured", "")]]
    /\ UNCHANGED transport
    /\ UNCHANGED downstream

\* NoOpOrderEventPublisher.PublishOrderCompleted
NoOpPublishOrderCompleted(c, ctx, order) ==
    /\ CanCall(c)
    /\ call' = [call EXCEPT ![c] = [Enter(c, "noop", ctx, order) EXCEPT !.pc = "done", !.result = NilError]]
    /\ UNCHANGED transport
    /\ UNCHANGED downstream

\* variant: the nil check of line 52 is missing
ProducerIsNil_Unchecked(a) == FALSE

\* k.producer == nil
ProducerIsNil(a) == producer[a] = "nil"

\* PublishOrderCompleted, lines 52-55: no producer configured
PublishNoProducer(c, a, ctx, order) ==
    /\ CanCall(c)
    /\ ProducerIsNil(a)
    /\ call' = [call EXCEPT ![c] =
                  [Enter(c, a, ctx, order) EXCEPT !.pc = "done", !.result = NilError,
                                                  !.log = {WarnNoProducer}]]
    /\ UNCHANGED transport
    /\ UNCHANGED downstream

\* createProducerSpan: the headers the propagator injects into the message
TraceHeaders == << "traceparent" >>
Inject(a) == IF a \in QuietAdapters THEN <<>> ELSE TraceHeaders

\* k.tracer.Start: a recording span, or the no-op tracer's span
StartSpan(a) ==
    IF a \in QuietAdapters THEN [state |-> "noop", status |-> "Unset", ends |-> 0]
    ELSE [state |-> "recording", status |-> "Unset", ends |-> 0]

\* k.logger writes the line, or discards it
LogLine(a, log, line) == IF a \in QuietAdapters THEN log ELSE log \cup {line}

\* variant: the encoding error is dropped and the empty payload is queued
PublishMarshalError_QueuesAnyway(c, a, ctx, order) ==
    /\ CanCall(c)
    /\ ~ProducerIsNil(a)
    /\ Marshal(order).err # ""
    /\ call' = [call EXCEPT ![c] =
                  [Enter(c, a, ctx, order) EXCEPT
                      !.pc = "queue", !.encoded = TRUE,
                      !.msg = [id |-> <<c, call[c].n + 1>>, Topic |-> Topic, Key |-> <<>>,
                               Value |-> <<>>, Headers |-> <<>>],
                      !.span = StartSpan(a)]]
    /\ UNCHANGED transport
    /\ UNCHANGED downstream

\* PublishOrderCompleted, lines 57-61: proto.Marshal fails
PublishMarshalError(c, a, ctx, order) ==
    /\ CanCall(c)
    /\ ~ProducerIsNil(a)
    /\ Marshal(order).err # ""
    /\ call' = [call EXCEPT ![c] =
                  [Enter(c, a, ctx, order) EXCEPT !.pc = "done", !.encoded = TRUE,
                                                  !.result = Errorf(ErrMarshal, Marshal(order).err)]]
    /\ UNCHANGED transport
    /\ UNCHANGED downstream

\* PublishOrderCompleted, lines 57-75: encode, build the message, start the span,
\* variant: the trace context is written into the payload as well
PublishBegin_TraceInPayload(c, a, ctx, order) ==
    /\ CanCall(c)
    /\ ~ProducerIsNil(a)
    /\ Marshal(order).err = ""
    /\ call' = [call EXCEPT ![c] =
                  [Enter(c, a, ctx, order) EXCEPT
                      !.pc = "queue", !.encoded = TRUE,
                      !.message = Marshal(order).bytes,
                      !.msg = [id |-> <<c, call[c].n + 1>>, Topic |-> Topic, Key |-> <<>>,
                               Value |-> Marshal(order).bytes
                                            \o [h \in DOMAIN Inject(a) |-> StringField(15, Inject(a)[h])], Headers |-> Inject(a)],
                      !.span = StartSpan(a)]]
    /\ UNCHANGED transport
    /\ UNCHANGED downstream

\* variant: the message is keyed by the order id
PublishBegin_KeyedByOrder(c, a, ctx, order) ==
    /\ CanCall(c)
    /\ ~ProducerIsNil(a)
    /\ Marshal(order).err = ""
    /\ call' = [call EXCEPT ![c] =
                  [Enter(c, a, ctx, order) EXCEPT
                      !.pc = "queue", !.encoded = TRUE,
                      !.message = Marshal(order).bytes,
                      !.msg = [id |-> <<c, call[c].n + 1>>, Topic |-> Topic, Key |-> << order.orderId >>,
                               Value |-> Marshal(order).bytes, Headers |-> Inject(a)],
                      !.span = StartSpan(a)]]
    /\ UNCHANGED transport
    /\ UNCHANGED downstream

\* and arrive at the select on Input() / ctx.Done()
PublishBegin(c, a, ctx, order) ==
    /\ CanCall(c)
    /\ ~ProducerIsNil(a)
    /\ Marshal(order).err = ""
    /\ call' = [call EXCEPT ![c] =
                  [Enter(c, a, ctx, order) EXCEPT
                      !.pc = "queue", !.encoded = TRUE,
                      !.message = Marshal(order).bytes,
                      !.msg = [id |-> <<c, call[c].n + 1>>, Topic |-> Topic, Key |-> <<>>,
                               Value |-> Marshal(order).bytes, Headers |-> Inject(a)],
                      !.span = StartSpan(a)]]
    /\ UNCHANGED transport
    /\ UNCHANGED downstream

\* variant: the span records its status and is left open
EndSpan_LeftOpen(span, status) == [span EXCEPT !.status = status]

\* defer span.End()
EndSpan(span, status) ==
    IF span.state = "noop" THEN span
    ELSE [span EXCEPT !.state = "ended", !.status = status, !.ends = @ + 1]

\* ------------------------------------------------- the select of line 75
\* case k.producer.Input() <- msg (line 76): the producer receives the message
InputSend(c) ==
    /\ call[c].pc = "queue"
    /\ inputReady
    /\ call' = [call EXCEPT ![c].pc = "wait", ![c].sends = @ + 1]
    /\ inputReady' = FALSE
    /\ inputCount' = inputCount + 1
    /\ pending' = pending \cup {call[c].msg}
    /\ UNCHANGED <<successes, errors, topicLog>>
    /\ UNCHANGED downstream

\* variant: the message is handed to the producer before the cancellation is reported
QueueCtxDone_Sends(c) ==
    /\ call[c].pc = "queue"
    /\ call[c].ctx # "active"
    /\ call' = [call EXCEPT ![c].pc = "done",
                            ![c].result = Errorf(ErrQueue, call[c].ctx),
                            ![c].span = EndSpan(@, "Error")]
    /\ inputCount' = inputCount + 1
    /\ pending' = pending \cup {call[c].msg}
    /\ UNCHANGED <<inputReady, successes, errors, topicLog>>
    /\ UNCHANGED downstream

\* case <-ctx.Done() (lines 79-81)
QueueCtxDone(c) ==
    /\ call[c].pc = "queue"
    /\ call[c].ctx # "active"
    /\ call' = [call EXCEPT ![c].pc = "done",
                            ![c].result = Errorf(ErrQueue, call[c].ctx),
                            ![c].span = EndSpan(@, "Error")]
    /\ UNCHANGED transport
    /\ UNCHANGED downstream

\* ------------------------------------------------- waitForAcknowledgment
\* variant: the acknowledged event is cleared before the return
AckSuccess_ClearsEvent(c) ==
    /\ call[c].pc = "wait"
    /\ successes # <<>>
    /\ call' = [call EXCEPT ![c].pc = "done",
                            ![c].ack = Head(successes),
                            ![c].reads = @ + 1,
                            ![c].log = LogLine(call[c].adapter, @, InfoPublished),
                            ![c].result = NilError,
                            ![c].order = NoOrder,
                            ![c].span = EndSpan(@, "Unset")]
    /\ successes' = Tail(successes)
    /\ UNCHANGED <<inputReady, inputCount, pending, errors, topicLog>>
    /\ UNCHANGED downstream

\* case successMsg := <-k.producer.Successes() (lines 88-99)
AckSuccess(c) ==
    /\ call[c].pc = "wait"
    /\ successes # <<>>
    /\ call' = [call EXCEPT ![c].pc = "done",
                            ![c].ack = Head(successes),
                            ![c].reads = @ + 1,
                            ![c].log = LogLine(call[c].adapter, @, InfoPublished),
                            ![c].result = NilError,
                            ![c].span = EndSpan(@, "Unset")]
    /\ successes' = Tail(successes)
    /\ UNCHANGED <<inputReady, inputCount, pending, errors, topicLog>>
    /\ UNCHANGED downstream

\* variant: a transport error is logged and swallowed
AckError_Swallowed(c) ==
    /\ call[c].pc = "wait"
    /\ errors # <<>>
    /\ call' = [call EXCEPT ![c].pc = "done",
                            ![c].ack = Head(errors),
                            ![c].reads = @ + 1,
                            ![c].log = LogLine(call[c].adapter, @, ErrorPublish),
                            ![c].result = NilError,
                            ![c].span = EndSpan(@, "Error")]
    /\ errors' = Tail(errors)
    /\ UNCHANGED <<inputReady, inputCount, pending, successes, topicLog>>
    /\ UNCHANGED downstream

\* variant: a transport error sends the call back to the select on Input()
AckError_Retries(c) ==
    /\ call[c].pc = "wait"
    /\ errors # <<>>
    /\ call' = [call EXCEPT ![c].pc = "queue"]
    /\ errors' = Tail(errors)
    /\ UNCHANGED <<inputReady, inputCount, pending, successes, topicLog>>
    /\ UNCHANGED downstream

\* case errMsg := <-k.producer.Errors() (lines 101-112)
AckError(c) ==
    /\ call[c].pc = "wait"
    /\ errors # <<>>
    /\ call' = [call EXCEPT ![c].pc = "done",
                            ![c].ack = Head(errors),
                            ![c].reads = @ + 1,
                            ![c].log = LogLine(call[c].adapter, @, ErrorPublish),
                            ![c].result = Errorf(ErrProducer, Head(errors).Err),
                            ![c].span = EndSpan(@, "Error")]
    /\ errors' = Tail(errors)
    /\ UNCHANGED <<inputReady, inputCount, pending, successes, topicLog>>
    /\ UNCHANGED downstream

\* variant: both cancellations are reported with the same error
AckCtxDone_SameError(c) ==
    /\ call[c].pc = "wait"
    /\ call[c].ctx # "active"
    /\ call' = [call EXCEPT ![c].pc = "done",
                            ![c].log = LogLine(call[c].adapter, @, WarnCancelled),
                            ![c].result = Errorf(ErrQueue, call[c].ctx),
                            ![c].span = EndSpan(@, "Error")]
    /\ UNCHANGED transport
    /\ UNCHANGED downstream

\* variant: a cancelled call takes its message back from the producer
AckCtxDone_Retracts(c) ==
    /\ call[c].pc = "wait"
    /\ call[c].ctx # "active"
    /\ call' = [call EXCEPT ![c].pc = "done",
                            ![c].log = LogLine(call[c].adapter, @, WarnCancelled),
                            ![c].result = Errorf(ErrWaiting, call[c].ctx),
                            ![c].span = EndSpan(@, "Error")]
    /\ pending' = pending \ {call[c].msg}
    /\ UNCHANGED <<inputReady, inputCount, successes, errors, topicLog>>
    /\ UNCHANGED downstream

\* variant: the select of waitForAcknowledgment has no ctx.Done() case
AckCtxDone_NoCase(c) ==
    /\ call[c].pc = "wait"
    /\ FALSE
    /\ UNCHANGED vars

\* case <-ctx.Done() (lines 114-124)
AckCtxDone(c) ==
    /\ call[c].pc = "wait"
    /\ call[c].ctx # "active"
    /\ call' = [call EXCEPT ![c].pc = "done",
                            ![c].log = LogLine(call[c].adapter, @, WarnCancelled),
                            ![c].result = Errorf(ErrWaiting, call[c].ctx),
                            ![c].span = EndSpan(@, "Error")]
    /\ UNCHANGED transport
    /\ UNCHANGED downstream

\* ----------------------------------------------------------- environment
\* the caller's context is cancelled or its deadline passes while the call runs
CtxDone(c, why) ==
    /\ call[c].pc \in {"queue", "wait"}
    /\ call[c].ctx = "active"
    /\ call' = [call EXCEPT ![c].ctx = why]
    /\ UNCHANGED transport
    /\ UNCHANGED downstream

\* the producer's dispatcher comes back to receive on Input()
ProducerReady ==
    /\ ~inputReady
    /\ inputReady' = TRUE
    /\ UNCHANGED <<call, inputCount, pending, successes, errors, topicLog>>
    /\ UNCHANGED downstream

\* the broker appends the message and the producer reports it on Successes()
BrokerAck(m) ==
    /\ m \in pending
    /\ pending' = pending \ {m}
    /\ topicLog' = Append(topicLog, m)
    /\ successes' = Append(successes, [kind |-> "success", id |-> m.id, Offset |-> Len(topicLog), Err |-> ""])
    /\ UNCHANGED <<call, inputReady, inputCount, errors>>
    /\ UNCHANGED downstream

\* the producer gives the message up and reports it on Errors()
BrokerError(m, e) ==
    /\ m \in pending
    /\ pending' = pending \ {m}
    /\ errors' = Append(errors, [kind |-> "error", id |-> m.id, Offset |-> 0, Err |-> e])
    /\ UNCHANGED <<call, inputReady, inputCount, successes, topicLog>>
    /\ UNCHANGED downstream

\* ------------------------------------------------------------------ spec
CallerStep(c) ==
    \/ InputSend(c)
    \/ QueueCtxDone(c)
    \/ AckSuccess(c)
    \/ AckError(c)
    \/ AckCtxDone(c)

Next ==
    \/ \E c \in Callers, ctx \in CtxStates, o \in Orders : NoOpPublishOrderCompleted(c, ctx, o)
    \/ \E c \in Callers, a \in KafkaAdapters, ctx \in CtxStates, o \in Orders : PublishNoProducer(c, a, ctx, o)
    \/ \E c \in Callers, a \in KafkaAdapters, ctx \in CtxStates, o \in Orders : PublishMarshalError(c, a, ctx, o)
    \/ \E c \in Callers, a \in KafkaAdapters, ctx \in CtxStates, o \in Orders : PublishBegin(c, a, ctx, o)
    \/ \E c \in Callers : InputSend(c)
    \/ \E c \in Callers : QueueCtxDone(c)
    \/ \E c \in Callers : AckSuccess(c)
    \/ \E c \in Callers : AckError(c)
    \/ \E c \in Callers : AckCtxDone(c)
    \/ \E c \in Callers, why \in CtxErrs : CtxDone(c, why)
    \/ ProducerReady
    \/ \E m \in pending : BrokerAck(m)
    \/ \E m \in pending, e \in TransportErrs : BrokerError(m, e)

Spec == Init /\ [][Next]_vars

\* the callers pass orders without items; nothing on the way to the adapter checks them
NextUnvalidated ==
    \/ \E c \in Callers, ctx \in CtxStates, o \in UnvalidatedOrders : NoOpPublishOrderCompleted(c, ctx, o)
    \/ \E c \in Callers, a \in KafkaAdapters, ctx \in CtxStates, o \in UnvalidatedOrders : PublishNoProducer(c, a, ctx, o)
    \/ \E c \in Callers, a \in KafkaAdapters, ctx \in CtxStates, o \in UnvalidatedOrders : PublishBegin(c, a, ctx, o)
    \/ \E c \in Callers : InputSend(c)
    \/ \E c \in Callers : QueueCtxDone(c)
    \/ \E c \in Callers : AckSuccess(c)
    \/ \E c \in Callers : AckError(c)
    \/ \E c \in Callers : AckCtxDone(c)
    \/ \E c \in Callers, why \in CtxErrs : CtxDone(c, why)
    \/ ProducerReady
    \/ \E m \in pending : BrokerAck(m)
    \/ \E m \in pending, e \in TransportErrs : BrokerError(m, e)

UnvalidatedSpec == Init /\ [][NextUnvalidated]_vars

\* the callers use a Kafka adapter with the observability hooks in place and one
\* whose hooks do nothing
HooksNext ==
    \/ \E c \in Callers, a \in HookAdapters, ctx \in CtxStates, o \in Orders : PublishMarshalError(c, a, ctx, o)
    \/ \E c \in Callers, a \in HookAdapters, ctx \in CtxStates, o \in Orders : PublishBegin(c, a, ctx, o)
    \/ \E c \in Callers : InputSend(c)
    \/ \E c \in Callers : QueueCtxDone(c)
    \/ \E c \in Callers : AckSuccess(c)
    \/ \E c \in Callers : AckError(c)
    \/ \E c \in Callers : AckCtxDone(c)
    \/ \E c \in Callers, why \in CtxErrs : CtxDone(c, why)
    \/ ProducerReady
    \/ \E m \in pending : BrokerAck(m)
    \/ \E m \in pending, e \in TransportErrs : BrokerError(m, e)

HooksSpec == Init /\ [][HooksNext]_vars

\* no call is between its entry and its return
NoCallRunning == \A d \in Callers : call[d].pc \in {"idle", "done"}

\* one goroutine calls the adapter: its calls follow one another
SoleCaller == {"c1"}

SequentialNext ==
    \/ \E c \in SoleCaller, ctx \in CtxStates, o \in Orders : NoOpPublishOrderCompleted(c, ctx, o)
    \/ \E c \in SoleCaller, a \in KafkaAdapters, ctx \in CtxStates, o \in Orders : PublishNoProducer(c, a, ctx, o)
    \/ \E c \in SoleCaller, a \in KafkaAdapters, ctx \in CtxStates, o \in Orders : PublishMarshalError(c, a, ctx, o)
    \/ \E c \in SoleCaller, a \in KafkaAdapters, ctx \in CtxStates, o \in Orders : PublishBegin(c, a, ctx, o)
    \/ \E c \in SoleCaller : InputSend(c)
    \/ \E c \in SoleCaller : QueueCtxDone(c)
    \/ \E c \in SoleCaller : AckSuccess(c)
    \/ \E c \in SoleCaller : AckError(c)
    \/ \E c \in SoleCaller : AckCtxDone(c)
    \/ \E c \in SoleCaller, why \in CtxErrs : CtxDone(c, why)
    \/ ProducerReady
    \/ \E m \in pending : BrokerAck(m)
    \/ \E m \in pending, e \in TransportErrs : BrokerError(m, e)

SequentialSpec == Init /\ [][SequentialNext]_vars

\* the Go scheduler runs a goroutine whose select has a ready case
LiveSpec == Spec /\ \A c \in Callers : WF_vars(CallerStep(c))

\* ------------------------------------------------------------ codec runs
\* a codec run starts from any of the events
CodecInit ==
    /\ PublisherInit
    /\ topicLog = <<>>
    /\ DispatcherInit
    /\ dbContext = "nil"
    /\ codec \in {[NoCodec EXCEPT !.stage = "event", !.event = e] : e \in CodecOrders}

\* protoBytes, err := proto.Marshal(orderResult)
EncodeBinary ==
    /\ codec.stage = "event"
    /\ codec' = [codec EXCEPT !.stage = "binary", !.wire = Marshal(codec.event)]
    /\ UNCHANGED <<publisher, topicLog, consumer>>

\* err = proto.Unmarshal(protoBytes, &deserializedOrder)
DecodeBinary ==
    /\ codec.stage = "binary"
    /\ codec.wire.err = ""
    /\ codec' = [codec EXCEPT !.stage = "decoded", !.decoded = Unmarshal(codec.wire.bytes)]
    /\ UNCHANGED <<publisher, topicLog, consumer>>

\* jsonObj, err := convertOrderResultToConsumerFormat(orderResult)
EncodeStructured ==
    /\ codec.stage = "decoded"
    /\ codec' = [codec EXCEPT !.stage = "structured",
                              !.structured = convertOrderResultToConsumerFormat(codec.event)]
    /\ UNCHANGED <<publisher, topicLog, consumer>>

CodecNext ==
    \/ EncodeBinary
    \/ DecodeBinary
    \/ EncodeStructured

CodecSpec == CodecInit /\ [][CodecNext]_vars

\* -------------------------------------------------------------- consumer
\* messages delivered to the dispatcher in one run
MaxMsgs == 3

\* the order of BuildSamplePayload
SampleOrder ==
    [orderId |-> "2", shippingTrackingId |-> "1234567890",
     shippingCost |-> USD(100, 0),
     shippingAddress |->
         [streetAddress |-> "123 Main St", city |-> "Anytown", state |-> "CA", country |-> "USA",
          zipCode |-> "12345"],
     items |-> << OrderItem("1", 2, USD(100, 0)) >>]

\* an order whose shipping address was never set
OrderNoAddress == [SampleOrder EXCEPT !.shippingAddress = NilAddress]

\* bytes that are not a protobuf message
Malformed == << [num |-> 0, wt |-> "invalid", str |-> "", int |-> 0, sub |-> <<>>] >>

\* the payloads the topic delivers
RawValues ==
    {Marshal(SampleOrder).bytes, Marshal(Order1).bytes, Malformed,
     Marshal(OrderNoAddress).bytes, Marshal(OrderNoItems).bytes}

\* variant: whatever parses is accepted
decodeBinary_AcceptsAnyParse(bytes) ==
    IF Unmarshal(bytes).err # "" THEN [order |-> NoOrder, err |-> "MalformedEnvelope"]
    ELSE [order |-> Unmarshal(bytes).order, err |-> ""]

\* the codec's decodeBinary: the event, or a DecodeError
decodeBinary(bytes) ==
    IF Unmarshal(bytes).err # "" THEN [order |-> NoOrder, err |-> "MalformedEnvelope"]
    ELSE IF MissingRequiredField(Unmarshal(bytes).order)
    THEN [order |-> NoOrder, err |-> "MissingRequiredField"]
    ELSE [order |-> Unmarshal(bytes).order, err |-> ""]

\* decodeBinary of each payload the topic delivers
Decodings == [v \in RawValues |-> decodeBinary(v)]

PersistErrs == {"ConnectionUnavailable", "ConstraintViolation"}

\* the three kinds of record written for one order, as one unit
Records(o) ==
    [order |-> [orderId |-> o.orderId],
     orderItems |-> [i \in DOMAIN o.items |-> [orderId |-> o.orderId, item |-> o.items[i]]],
     shipping |-> [orderId |-> o.orderId, trackingId |-> o.shippingTrackingId,
                   cost |-> o.shippingCost, address |-> o.shippingAddress]]

\* one line of the dispatcher's log
LogEntry(off, outcome, err) == [offset |-> off, outcome |-> outcome, err |-> err]

\* a run of the dispatcher, with or without a persistence backend
ConsumerInit ==
    /\ PublisherInit
    /\ topicLog = <<>>
    /\ codec = NoCodec
    /\ DispatcherInit
    /\ dbContext \in {"configured", "nil"}

\* a producer's message reaches the topic
Deliver(v) ==
    /\ Len(topicLog) < MaxMsgs
    /\ topicLog' = Append(topicLog, [id |-> <<"broker", Len(topicLog) + 1>>, Topic |-> Topic,
                                     Key |-> <<>>, Value |-> v, Headers |-> <<>>])
    /\ UNCHANGED <<publisher, codec, consumer>>

\* Idle -> Listening
StartListening ==
    /\ dispatcher = "Idle"
    /\ dispatcher' = "Listening"
    /\ UNCHANGED <<publisher, topicLog, codec, runCtx, offset, current, dbContext, db, consumerLog>>

\* variant: the next message is taken while the previous one is still processed
Receive_WhileProcessing ==
    /\ dispatcher \in {"Listening", "Processing"}
    /\ offset < Len(topicLog)
    /\ dispatcher' = "Processing"
    /\ offset' = offset + 1
    /\ current' = topicLog[offset + 1]
    /\ UNCHANGED <<publisher, topicLog, codec, runCtx, dbContext, db, consumerLog>>

\* variant: the dispatcher takes everything the topic holds at once
Receive_TakesAll ==
    /\ dispatcher = "Listening"
    /\ offset < Len(topicLog)
    /\ dispatcher' = "Processing"
    /\ offset' = Len(topicLog)
    /\ current' = topicLog[Len(topicLog)]
    /\ UNCHANGED <<publisher, topicLog, codec, runCtx, dbContext, db, consumerLog>>

\* Listening -> Processing: the next message of the topic, in offset order
Receive ==
    /\ dispatcher = "Listening"
    /\ offset < Len(topicLog)
    /\ dispatcher' = "Processing"
    /\ offset' = offset + 1
    /\ current' = topicLog[offset + 1]
    /\ UNCHANGED <<publisher, topicLog, codec, runCtx, dbContext, db, consumerLog>>

\* variant: a message that does not decode ends the run
ProcessDecodeError_Stops ==
    /\ dispatcher = "Processing"
    /\ Decodings[current.Value].err # ""
    /\ consumerLog' = Append(consumerLog, LogEntry(offset, "discarded", Decodings[current.Value].err))
    /\ dispatcher' = "Stopped"
    /\ current' = NoMsg
    /\ UNCHANGED <<publisher, topicLog, codec, runCtx, offset, dbContext, db>>

\* steps 1-2: the payload does not decode: log, discard, continue listening
ProcessDecodeError ==
    /\ dispatcher = "Processing"
    /\ Decodings[current.Value].err # ""
    /\ consumerLog' = Append(consumerLog, LogEntry(offset, "discarded", Decodings[current.Value].err))
    /\ dispatcher' = "Listening"
    /\ current' = NoMsg
    /\ UNCHANGED <<publisher, topicLog, codec, runCtx, offset, dbContext, db>>

\* variant: the write is attempted on the missing backend and fails
SkipPersistence_Fails ==
    /\ dispatcher = "Processing"
    /\ Decodings[current.Value].err = ""
    /\ dbContext = "nil"
    /\ consumerLog' = Append(consumerLog, LogEntry(offset, "persist failed", "ConnectionUnavailable"))
    /\ dispatcher' = "Listening"
    /\ current' = NoMsg
    /\ UNCHANGED <<publisher, topicLog, codec, runCtx, offset, dbContext, db>>

\* step 4: no persistence backend: the message is logged as received, not stored
SkipPersistence ==
    /\ dispatcher = "Processing"
    /\ Decodings[current.Value].err = ""
    /\ dbContext = "nil"
    /\ consumerLog' = Append(consumerLog, LogEntry(offset, "not stored", ""))
    /\ dispatcher' = "Listening"
    /\ current' = NoMsg
    /\ UNCHANGED <<publisher, topicLog, codec, runCtx, offset, dbContext, db>>

\* step 3: the three kinds of record are committed as one unit
PersistOk ==
    /\ dispatcher = "Processing"
    /\ Decodings[current.Value].err = ""
    /\ dbContext = "configured"
    /\ db' = Append(db, Records(Decodings[current.Value].order))
    /\ consumerLog' = Append(consumerLog, LogEntry(offset, "persisted", ""))
    /\ dispatcher' = "Listening"
    /\ current' = NoMsg
    /\ UNCHANGED <<publisher, topicLog, codec, runCtx, offset, dbContext>>

\* variant: the order header written before the failure stays in the database
PersistFail_KeepsHeader(e) ==
    /\ dispatcher = "Processing"
    /\ Decodings[current.Value].err = ""
    /\ dbContext = "configured"
    /\ db' = Append(db, [Records(Decodings[current.Value].order) EXCEPT
                             !.orderItems = <<>>,
                             !.shipping = Records(NoOrder).shipping])
    /\ consumerLog' = Append(consumerLog, LogEntry(offset, "persist failed", e))
    /\ dispatcher' = "Listening"
    /\ current' = NoMsg
    /\ UNCHANGED <<publisher, topicLog, codec, runCtx, offset, dbContext>>

\* variant: a persistence failure ends the run
PersistFail_Stops(e) ==
    /\ dispatcher = "Processing"
    /\ Decodings[current.Value].err = ""
    /\ dbContext = "configured"
    /\ consumerLog' = Append(consumerLog, LogEntry(offset, "persist failed", e))
    /\ dispatcher' = "Stopped"
    /\ current' = NoMsg
    /\ UNCHANGED <<publisher, topicLog, codec, runCtx, offset, dbContext, db>>

\* step 4: persistence fails with e: nothing is written, log, discard, continue listening
PersistFail(e) ==
    /\ dispatcher = "Processing"
    /\ Decodings[current.Value].err = ""
    /\ dbContext = "configured"
    /\ consumerLog' = Append(consumerLog, LogEntry(offset, "persist failed", e))
    /\ dispatcher' = "Listening"
    /\ current' = NoMsg
    /\ UNCHANGED <<publisher, topicLog, codec, runCtx, offset, dbContext, db>>

\* the shutdown signal: the run context is cancelled
CancelRun ==
    /\ dispatcher # "Stopped"
    /\ runCtx = "active"
    /\ runCtx' = "canceled"
    /\ UNCHANGED <<publisher, topicLog, codec, dispatcher, offset, current, dbContext, db, consumerLog>>

\* Listening -> Stopped, once the run context is cancelled
Stop ==
    /\ dispatcher = "Listening"
    /\ runCtx = "canceled"
    /\ dispatcher' = "Stopped"
    /\ UNCHANGED <<publisher, topicLog, codec, runCtx, offset, current, dbContext, db, consumerLog>>

\* the per-message algorithm, from the decode to the return to Listening
ProcessMessage ==
    \/ ProcessDecodeError
    \/ SkipPersistence
    \/ PersistOk
    \/ \E e \in PersistErrs : PersistFail(e)

ConsumerNext ==
    \/ \E v \in RawValues : Deliver(v)
    \/ StartListening
    \/ Receive
    \/ ProcessDecodeError
    \/ SkipPersistence
    \/ PersistOk
    \/ \E e \in PersistErrs : PersistFail(e)
    \/ CancelRun
    \/ Stop

ConsumerSpec == ConsumerInit /\ [][ConsumerNext]_vars

\* the dispatcher's loop is its own thread: a message it received is processed to the end
ConsumerLiveSpec == ConsumerSpec /\ WF_vars(ProcessMessage)

\* ------------------------------------------------------------ end to end
\* the events the checkout publishes end to end
E2EOrders == {Order1, SampleOrder}

\* a call's context is live or cancelled; a write fails on a lost connection
E2ECtxErrs == {"context canceled"}
E2ECtxStates == {"active"} \cup E2ECtxErrs
E2EPersistErrs == {"ConnectionUnavailable"}

\* the checkout and the accounting service on one topic, persistence configured
E2EInit ==
    /\ PublisherInit
    /\ topicLog = <<>>
    /\ codec = NoCodec
    /\ DispatcherInit
    /\ dbContext = "configured"

\* one goroutine publishes through the Kafka adapter over a transport that
\* acknowledges what it accepts, and the dispatcher consumes the topic
E2ENext ==
    \/ \E c \in SoleCaller, ctx \in E2ECtxStates, o \in E2EOrders : PublishBegin(c, "kafka", ctx, o)
    \/ \E c \in SoleCaller : InputSend(c)
    \/ \E c \in SoleCaller : QueueCtxDone(c)
    \/ \E c \in SoleCaller : AckSuccess(c)
    \/ \E c \in SoleCaller : AckCtxDone(c)
    \/ \E c \in SoleCaller, why \in E2ECtxErrs : CtxDone(c, why)
    \/ ProducerReady
    \/ \E m \in pending : BrokerAck(m)
    \/ StartListening
    \/ Receive
    \/ PersistOk
    \/ \E e \in E2EPersistErrs : PersistFail(e)

E2ESpec == E2EInit /\ [][E2ENext]_vars

\* the producer's goroutines, the broker and the dispatcher's loop all keep running
E2ELiveSpec ==
    /\ E2ESpec
    /\ \A c \in SoleCaller : WF_vars(CallerStep(c))
    /\ WF_vars(ProducerReady)
    /\ WF_vars(\E m \in pending : BrokerAck(m))
    /\ WF_vars(StartListening)
    /\ WF_vars(Receive)
    /\ WF_vars(ProcessMessage)

\* ------------------------------------------------ MockOrderEventPublisher
\* calls of PublishOrderCompleted on the mock in one run
MaxMockCalls == 3

ErrMock == "mock publisher configured to fail"

\* variant: the order is recorded before shouldFail is looked at
MockPublishOrderCompleted_RecordsFirst(ctx, order) ==
    /\ Len(mock.calls) < MaxMockCalls
    /\ mock' = [mock EXCEPT
                  !.publishedOrders = Append(@, order),
                  !.calls = Append(@, [order |-> order, shouldFail |-> mock.shouldFail,
                                       result |-> IF mock.shouldFail THEN Errorf(ErrMock, "")
                                                  ELSE NilError])]
    /\ UNCHANGED <<call, transport, codec, consumer>>

\* MockOrderEventPublisher.PublishOrderCompleted
MockPublishOrderCompleted(ctx, order) ==
    /\ Len(mock.calls) < MaxMockCalls
    /\ mock' = [mock EXCEPT
                  !.publishedOrders = IF mock.shouldFail THEN @ ELSE Append(@, order),
                  !.calls = Append(@, [order |-> order, shouldFail |-> mock.shouldFail,
                                       result |-> IF mock.shouldFail THEN Errorf(ErrMock, "")
                                                  ELSE NilError])]
    /\ UNCHANGED <<call, transport, codec, consumer>>

\* MockOrderEventPublisher.SetShouldFail
SetShouldFail(shouldFail) ==
    /\ mock' = [mock EXCEPT !.shouldFail = shouldFail]
    /\ UNCHANGED <<call, transport, codec, consumer>>

MockNext ==
    \/ \E ctx \in CtxStates, o \in Orders : MockPublishOrderCompleted(ctx, o)
    \/ \E b \in BOOLEAN : SetShouldFail(b)

MockSpec == Init /\ [][MockNext]_vars

\* --------------------------------------------------------------- helpers
Done(c) == call[c].pc = "done"

\* message id is held by the producer, in a channel or in the topic
OnTransport(id) ==
    \/ \E m \in pending : m.id = id
    \/ \E i \in DOMAIN successes : successes[i].id = id
    \/ \E i \in DOMAIN errors : errors[i].id = id
    \/ \E i \in DOMAIN topicLog : topicLog[i].id = id

\* caller c takes a step that ends its call
Returns(c) == call[c].pc # "done" /\ call'[c].pc = "done"

\* ---------------------------------------------------------------- claims
\* C1: a call whose message the producer accepted returns one outcome, decided by
\* exactly one of three events: nil on a success acknowledgment, "kafka producer
\* error" wrapping the transport's error on a transport error, the cancelled-while-
\* waiting error wrapping ctx.Err() on ctx.Done(); it reads at most one
\* acknowledgment.
C1_OneOutcomeOfThree ==
    \A c \in Callers :
        /\ call[c].reads <= 1
        /\ (call[c].pc = "wait") => (call[c].reads = 0 /\ call[c].ack = NoAck)
        /\ (Done(c) /\ call[c].sends > 0) =>
              \/ /\ call[c].result = NilError
                 /\ call[c].ack.kind = "success" /\ call[c].reads = 1
              \/ /\ call[c].result = Errorf(ErrProducer, call[c].ack.Err)
                 /\ call[c].ack.kind = "error" /\ call[c].reads = 1
                 /\ call[c].ack.Err \in TransportErrs
              \/ /\ call[c].result = Errorf(ErrWaiting, call[c].ctx)
                 /\ call[c].ctx \in CtxErrs
                 /\ call[c].ack = NoAck /\ call[c].reads = 0

C1_Witness ==
    \E c \in Callers :
        /\ Done(c) /\ call[c].sends = 1
        /\ call[c].ack.kind = "error"
        /\ call[c].result.msg = ErrProducer

\* C2: a call that returns "failed to queue message" never placed its message on
\* the producer's input: the step that returns it leaves the send count and the
\* channels as they were, and the message is nowhere on the transport.
C2_CancelledBeforeEnqueueSendsNothing ==
    [][\A c \in Callers :
          (Returns(c) /\ call'[c].result.msg = ErrQueue) =>
              /\ inputCount' = inputCount
              /\ pending' = pending
              /\ successes' = successes /\ errors' = errors /\ topicLog' = topicLog
              /\ call'[c].sends = 0 /\ call'[c].reads = 0
              /\ ~OnTransport(call[c].msg.id)']_vars

C2_Witness ==
    \E c \in Callers :
        /\ Done(c) /\ call[c].result.msg = ErrQueue
        /\ call[c].msg.id # NoId /\ call[c].sends = 0

\* C3: a call on an adapter with a producer whose context is done before the
\* producer has accepted the message returns the cancellation error and sends
\* nothing, whether or not the producer's input is ready.
C3_CancelledBeforeAcceptanceNeverSends ==
    [][\A c \in Callers :
          (call[c].pc = "queue" /\ call[c].ctx # "active" /\ call'[c] # call[c]) =>
              /\ call'[c].pc = "done"
              /\ call'[c].result = Errorf(ErrQueue, call[c].ctx)
              /\ call'[c].sends = 0
              /\ inputCount' = inputCount]_vars

\* C4: a cancellation after the producer accepted the message and a cancellation
\* before it are returned as different errors: of the errors that wrap ctx.Err(),
\* one is returned exactly by the calls that sent nothing and the other exactly by
\* the calls that sent.
C4_DistinctCancellationErrors ==
    \A c \in Callers :
        (Done(c) /\ call[c].result.err \in CtxErrs) =>
            /\ call[c].result.msg \in {ErrQueue, ErrWaiting}
            /\ (call[c].result.msg = ErrQueue) <=> (call[c].sends = 0)
            /\ (call[c].result.msg = ErrWaiting) <=> (call[c].sends = 1)

C4_Witness ==
    \E c, d \in Callers :
        /\ Done(c) /\ call[c].result.msg = ErrQueue /\ call[c].sends = 0
        /\ Done(d) /\ call[d].result.msg = ErrWaiting /\ call[d].sends = 1

\* C5: cancellation after enqueue does not guarantee non-delivery: the adapter
\* never takes back a message the producer accepted (a message leaves the
\* producer only into the topic or into Errors(), and the topic only grows), and
\* while the message of a call that returned the cancelled-while-waiting error is
\* still with the producer, the broker can deliver and acknowledge it.
C5_EnqueuedIsNeverRetracted ==
    /\ [][/\ \A m \in pending :
               \/ m \in pending'
               \/ \E i \in DOMAIN topicLog' : topicLog'[i] = m
               \/ \E i \in DOMAIN errors' : errors'[i].id = m.id
          /\ Len(topicLog') >= Len(topicLog)
          /\ SubSeq(topicLog', 1, Len(topicLog)) = topicLog]_vars
    /\ [](\A c \in Callers :
             (Done(c) /\ call[c].result.msg = ErrWaiting /\ call[c].msg \in pending)
                 => ENABLED BrokerAck(call[c].msg))

\* the call returned the cancelled-while-waiting error and its message is in the
\* topic, its acknowledgment unread on Successes()
C5_Witness ==
    \E c \in Callers :
        /\ Done(c) /\ call[c].result.msg = ErrWaiting
        /\ \E i \in DOMAIN topicLog : topicLog[i] = call[c].msg
        /\ \E i \in DOMAIN successes : successes[i].id = call[c].msg.id

C7_OwnAcknowledgmentOnly ==
    [][\A c \in Callers :
          (/\ Returns(c)
           /\ \E d \in Callers \ {c} : call[d].pc \in {"queue", "wait"}
           /\ call[c].sends = 1
           /\ call'[c].result.msg \in {"", ErrProducer})
              => (call'[c].ack.id = call[c].msg.id)]_vars

\* C8: a call whose context is done returns, at the select on Input() as at the
\* select of waitForAcknowledgment, whatever the producer and the broker do.
C8_ReturnsOnceContextDone ==
    \A c \in Callers :
        (call[c].pc \in {"queue", "wait"} /\ call[c].ctx # "active") ~> Done(c)

\* the call returned although the producer never received anything
C8_Witness ==
    \E c \in Callers :
        /\ Done(c) /\ call[c].result.msg = ErrQueue
        /\ inputCount = 0 /\ ~inputReady

\* C9: on an adapter without producer the call returns nil at once for every
\* order and every context, logs the warning, and touches neither the codec nor
\* the transport.
C9_NoProducerIsSilentSuccess ==
    [][\A c \in Callers :
          (/\ call'[c] # call[c]
           /\ call'[c].adapter \in KafkaAdapters
           /\ producer[call'[c].adapter] = "nil")
              => /\ call'[c].pc = "done"
                 /\ call'[c].result = NilError
                 /\ call'[c].log = {WarnNoProducer}
                 /\ ~call'[c].encoded /\ call'[c].message = <<>>
                 /\ call'[c].msg = NoMsg
                 /\ call'[c].sends = 0 /\ call'[c].reads = 0
                 /\ UNCHANGED transport]_vars

C9_Witness ==
    \E c \in Callers :
        /\ Done(c) /\ call[c].adapter = "kafkaNoProducer"
        /\ call[c].ctx = "context canceled"
        /\ call[c].order = OrderBadUTF8
        /\ call[c].result = NilError

\* C10: NoOpOrderEventPublisher.PublishOrderCompleted returns nil for every order
\* and every context, does nothing on the transport, holds no producer, and
\* changes nothing but the caller's own frame.
C10_NoOpNeverFailsNeverDelivers ==
    [][\A c \in Callers :
          (call'[c] # call[c] /\ call'[c].adapter = "noop")
              => /\ call'[c].pc = "done"
                 /\ call'[c].result = NilError
                 /\ call'[c].sends = 0 /\ call'[c].reads = 0
                 /\ call'[c].msg = NoMsg /\ ~call'[c].encoded
                 /\ call'[c].span = NoSpan
                 /\ "noop" \notin DOMAIN producer
                 /\ \A d \in Callers \ {c} : call'[d] = call[d]
                 /\ UNCHANGED transport]_vars

C10_Witness ==
    \E c \in Callers :
        /\ Done(c) /\ call[c].adapter = "noop"
        /\ call[c].ctx = "context deadline exceeded"
        /\ call[c].result = NilError
        /\ inputCount = 0
\* C11: a Kafka adapter built without a producer and the no-op adapter are
\* observationally equivalent: for a call on each, the results are equal, neither
\* sends anything, and both calls log the warning.
C11_NoProducerEquivalentToNoOp ==
    \A c, d \in Callers :
        (/\ Done(c) /\ call[c].adapter = "kafkaNoProducer"
         /\ Done(d) /\ call[d].adapter \in NoOpAdapters)
            => /\ call[c].result = call[d].result
               /\ call[c].sends = 0 /\ call[d].sends = 0
               /\ WarnNoProducer \in call[c].log
               /\ WarnNoProducer \in call[d].log

\* C12: the event passed to PublishOrderCompleted is the caller's event from the
\* entry of the call to its return, on every return path; the trace headers are on
\* the transport message only, whose value is the encoding of the unchanged event.
C12_EventNeverMutated ==
    [][\A c \in Callers :
          /\ call'[c].pc # "idle" => call'[c].order \in Orders
          /\ call'[c].n = call[c].n => call'[c].order = call[c].order
          /\ call'[c].msg # NoMsg =>
                /\ call'[c].msg.Headers = TraceHeaders
                /\ call'[c].msg.Value = Marshal(call'[c].order).bytes
                /\ \A i \in DOMAIN call'[c].msg.Value : call'[c].msg.Value[i].str \notin
                       {TraceHeaders[h] : h \in DOMAIN TraceHeaders}]_vars

C12_Witness ==
    \E c, d \in Callers :
        /\ Done(c) /\ call[c].sends = 1 /\ call[c].result = NilError
        /\ call[c].order = Order1 /\ call[c].msg.Headers = TraceHeaders
        /\ Done(d) /\ call[d].sends = 1 /\ call[d].result # NilError
        /\ call[d].order = Order1

\* C13: every message the producer receives on Input() targets the orders topic,
\* has no key, and its value is the binary encoding of the one event of the call
\* that sent it.
C13_OneEventPerMessageOnOrdersTopic ==
    [][\A m \in pending' \ pending :
          \E c \in Callers :
              /\ m.id = <<c, call[c].n>>
              /\ call'[c].sends = call[c].sends + 1
              /\ m.Topic = Topic
              /\ m.Key = <<>>
              /\ Marshal(call[c].order).err = ""
              /\ m.Value = Marshal(call[c].order).bytes]_vars

C13_Witness ==
    /\ \E m \in pending : m.Value = Marshal(Order1).bytes /\ m.Topic = "orders"
    /\ \E i \in DOMAIN topicLog : topicLog[i].Value = Marshal(Order1).bytes /\ topicLog[i].Key = <<>>

\* C16: an event whose items are empty is rejected before anything is done with
\* it: the publish path neither encodes it nor places it on the transport.
C16_EmptyItemsNeverEncodedNorSent ==
    /\ \A c \in Callers :
          (call[c].pc # "idle" /\ call[c].order.items = <<>>)
              => ~call[c].encoded /\ call[c].sends = 0
    /\ \A m \in pending : m.Value # Marshal(OrderNoItems).bytes
    /\ \A i \in DOMAIN topicLog : topicLog[i].Value # Marshal(OrderNoItems).bytes
\* C14: for every valid event, decoding the binary encoding of the event gives the
\* event back: encoding does not fail, decoding does not fail, and the decoded
\* event equals the encoded one in every field.
C14_BinaryRoundTrip ==
    (codec.stage \in {"decoded", "structured"} /\ ValidEvent(codec.event))
        => /\ codec.wire.err = ""
           /\ codec.decoded.err = ""
           /\ codec.decoded.order = codec.event

C14_Witness ==
    /\ codec.stage = "decoded"
    /\ ValidEvent(codec.event)
    /\ codec.event.shippingCost = USD(1000000007, 500000000)
    /\ codec.event.items = << Item2, Item1 >>
    /\ codec.decoded.order = codec.event

MoneyKeys == {"currencyCode", "units", "nanos"}

\* the structured Money j carries the values of m, with units and nanos as numbers
SameMoney(j, m) ==
    /\ DOMAIN j = MoneyKeys
    /\ j["currencyCode"] = JString(m.currencyCode)
    /\ j["units"].t = "number" /\ j["units"].n = m.units
    /\ j["nanos"].t = "number" /\ j["nanos"].n = m.nanos

\* C15: in the output of convertOrderResultToConsumerFormat for a valid event every
\* Money units is a JSON number equal to the event's units, never a string; every
\* other field keeps its value under its camelCase key; zero-valued fields such as
\* nanos are present.
C15_StructuredUnitsAreNumbers ==
    (codec.stage = "structured" /\ ValidEvent(codec.event))
        => /\ DOMAIN codec.structured =
                  {"orderId", "shippingTrackingId", "shippingCost", "shippingAddress", "items"}
           /\ codec.structured["orderId"] = JString(codec.event.orderId)
           /\ codec.structured["shippingTrackingId"] = JString(codec.event.shippingTrackingId)
           /\ SameMoney(codec.structured["shippingCost"], codec.event.shippingCost)
           /\ DOMAIN codec.structured["shippingAddress"] =
                  {"streetAddress", "city", "state", "country", "zipCode"}
           /\ \A f \in DOMAIN codec.structured["shippingAddress"] :
                  codec.structured["shippingAddress"][f] = JString(codec.event.shippingAddress[f])
           /\ DOMAIN codec.structured["items"] = DOMAIN codec.event.items
           /\ \A i \in DOMAIN codec.event.items :
                  /\ DOMAIN codec.structured["items"][i] = {"item", "cost"}
                  /\ DOMAIN codec.structured["items"][i]["item"] = {"productId", "quantity"}
                  /\ codec.structured["items"][i]["item"]["productId"] =
                         JString(codec.event.items[i].item.productId)
                  /\ codec.structured["items"][i]["item"]["quantity"] =
                         JNumber(codec.event.items[i].item.quantity)
                  /\ SameMoney(codec.structured["items"][i]["cost"], codec.event.items[i].cost)

C15_Witness ==
    /\ codec.stage = "structured"
    /\ ValidEvent(codec.event)
    /\ codec.event.shippingCost = USD(1000000007, 0)
    /\ codec.structured["shippingCost"]["units"] = JNumber(1000000007)
    /\ codec.structured["shippingCost"]["nanos"] = JNumber(0)
    /\ codec.structured["items"][2]["cost"]["units"] = JNumber(15)
\* the payload parses, and the message it holds lacks a required field
LacksRequiredField(bytes) ==
    Unmarshal(bytes).err = "" /\ MissingRequiredField(Unmarshal(bytes).order)

\* C17: a message that lacks a required field (such as shippingAddress) is rejected
\* by the codec with MissingRequiredField; the dispatcher logs it, goes back to
\* Listening, and persists no record for it.
C17_MissingFieldIsRejectedAndSkipped ==
    [][(/\ dispatcher = "Processing"
        /\ dispatcher' # "Processing"
        /\ LacksRequiredField(current.Value))
           => /\ db' = db
              /\ consumerLog' = Append(consumerLog,
                                       LogEntry(offset, "discarded", "MissingRequiredField"))
              /\ dispatcher' = "Listening"]_vars

C17_Witness ==
    /\ dbContext = "configured"
    /\ offset = 1 /\ topicLog[1].Value = Marshal(OrderNoAddress).bytes
    /\ consumerLog = << LogEntry(1, "discarded", "MissingRequiredField") >>
    /\ db = <<>>
    /\ dispatcher = "Listening"

\* C18: the dispatcher enters Stopped only from Listening with its run context
\* cancelled; no step that handles a message, whatever its outcome, stops it.
C18_StoppedOnlyByCancellation ==
    [][/\ (dispatcher' = "Stopped" /\ dispatcher # "Stopped")
              => /\ runCtx = "canceled"
                 /\ dispatcher = "Listening"
                 /\ consumerLog' = consumerLog
       /\ (dispatcher = "Processing" /\ dispatcher' # "Processing") => dispatcher' = "Listening"
       /\ runCtx' = "canceled" /\ runCtx = "active" => consumerLog' = consumerLog /\ db' = db]_vars

C18_Witness ==
    /\ dispatcher = "Stopped"
    /\ runCtx = "canceled"
    /\ \E i \in DOMAIN consumerLog : consumerLog[i].outcome = "discarded"
    /\ \E i \in DOMAIN consumerLog : consumerLog[i].outcome = "persist failed"

\* C19: the dispatcher enters Processing exactly once for every message it
\* receives, one message at a time and in offset order, and every Processing is
\* eventually followed by Listening.
C19_ProcessingOncePerMessage ==
    /\ [][/\ (dispatcher # "Processing" /\ dispatcher' = "Processing") <=> offset' = offset + 1
          /\ offset' \in {offset, offset + 1}
          /\ offset' = offset + 1 => dispatcher = "Listening" /\ current' = topicLog[offset + 1]
          /\ dispatcher = "Processing" => current = topicLog[offset]]_vars
    /\ (dispatcher = "Processing") ~> (dispatcher = "Listening")

C19_Witness ==
    /\ Len(topicLog) >= 2
    /\ offset = Len(topicLog)
    /\ Len(consumerLog) = offset
    /\ dispatcher = "Listening"

\* the payload holds a valid event
HoldsValidEvent(bytes) == Unmarshal(bytes).err = "" /\ ValidEvent(Unmarshal(bytes).order)

\* the units of records the log says were committed, in log order
RECURSIVE PersistedBy(_)
PersistedBy(log) ==
    IF log = <<>> THEN <<>>
    ELSE PersistedBy(SubSeq(log, 1, Len(log) - 1))
             \o (IF log[Len(log)].outcome = "persisted"
                 THEN << Records(Unmarshal(topicLog[log[Len(log)].offset].Value).order) >>
                 ELSE <<>>)

\* C20: each message is handled on its own: the i-th log entry is about the i-th
\* message; a message that holds no valid event is discarded and leaves the
\* dispatcher Listening; a valid message is persisted whenever the backend is
\* configured and does not fail on it, whatever happened to the messages before it;
\* the database holds the records of exactly the persisted messages.
C20_FailuresDoNotAffectLaterMessages ==
    /\ Len(consumerLog) = IF dispatcher = "Processing" THEN offset - 1 ELSE offset
    /\ \A i \in DOMAIN consumerLog :
          /\ consumerLog[i].offset = i
          /\ ~HoldsValidEvent(topicLog[i].Value) => consumerLog[i].outcome = "discarded"
          /\ (/\ HoldsValidEvent(topicLog[i].Value)
              /\ dbContext = "configured"
              /\ consumerLog[i].outcome # "persist failed")
                 => consumerLog[i].outcome = "persisted"
    /\ db = PersistedBy(consumerLog)
    /\ (consumerLog # <<>> /\ runCtx = "active") => dispatcher \in {"Listening", "Processing"}

C20_Witness ==
    /\ Len(topicLog) >= 2
    /\ topicLog[1].Value = Malformed
    /\ topicLog[2].Value = Marshal(SampleOrder).bytes
    /\ offset = 2
    /\ consumerLog = << LogEntry(1, "discarded", "MalformedEnvelope"), LogEntry(2, "persisted", "") >>
    /\ db = << Records(SampleOrder) >>
    /\ dispatcher = "Listening"
\* C26: when the calls do not overlap, the acknowledgment a call reads is the
\* acknowledgment of the message that call enqueued, also after an earlier call
\* gave up waiting; and once every call has returned and the producer holds no
\* message, no acknowledgment is left in Successes() or Errors().
C26_SequentialCallsReadOwnAcknowledgment ==
    /\ \A c \in Callers : (Done(c) /\ call[c].reads > 0) => call[c].ack.id = call[c].msg.id
    /\ (NoCallRunning /\ pending = {}) => (successes = <<>> /\ errors = <<>>)

\* C27: a call whose order does not encode returns "failed to marshal order result
\* to protobuf" wrapping the encoder's error, in the step that enters it: nothing is
\* sent, no acknowledgment is read, no span is started, the transport is untouched.
C27_EncodeFailureReturnsBeforeTransport ==
    [][\A c \in Callers :
          (/\ call'[c].n # call[c].n
           /\ call'[c].adapter \in KafkaAdapters
           /\ producer[call'[c].adapter] # "nil"
           /\ Marshal(call'[c].order).err # "")
              => /\ call'[c].pc = "done"
                 /\ call'[c].result = Errorf(ErrMarshal, Marshal(call'[c].order).err)
                 /\ call'[c].msg = NoMsg
                 /\ call'[c].sends = 0 /\ call'[c].reads = 0
                 /\ call'[c].span = NoSpan
                 /\ UNCHANGED transport]_vars

C27_Witness ==
    \E c \in Callers :
        /\ Done(c) /\ call[c].adapter = "kafka"
        /\ call[c].order = OrderBadUTF8
        /\ call[c].result = Errorf(ErrMarshal, "string field contains invalid UTF-8")
        /\ call[c].span = NoSpan
        /\ inputCount = 0

\* the call of c has a span
HasSpan(c) == call[c].span # NoSpan

\* C28: a call has a span exactly when it got past the encoding on an adapter with
\* a producer; the span is open while the call runs and has been ended exactly once
\* when the call has returned, on each of the four return paths.
C28_SpanEndedExactlyOnce ==
    \A c \in Callers :
        /\ HasSpan(c) <=> (/\ call[c].pc # "idle"
                           /\ call[c].adapter \in KafkaAdapters
                           /\ producer[call[c].adapter] # "nil"
                           /\ Marshal(call[c].order).err = "")
        /\ (HasSpan(c) /\ call[c].pc \in {"queue", "wait"})
              => call[c].span.state = "recording" /\ call[c].span.ends = 0
        /\ (HasSpan(c) /\ Done(c))
              => call[c].span.state = "ended" /\ call[c].span.ends = 1

C28_Witness ==
    \E c, d \in Callers :
        /\ Done(c) /\ call[c].result.msg = ErrQueue /\ call[c].span.ends = 1
        /\ Done(d) /\ call[d].result.msg = ErrWaiting /\ call[d].span.ends = 1
\* the orders of the calls made while shouldFail was false, in call order
RECURSIVE AcceptedOrders(_)
AcceptedOrders(calls) ==
    IF calls = <<>> THEN <<>>
    ELSE AcceptedOrders(SubSeq(calls, 1, Len(calls) - 1))
             \o (IF calls[Len(calls)].shouldFail THEN <<>> ELSE << calls[Len(calls)].order >>)

\* C29: publishedOrders of the mock is the sequence of the orders passed to the
\* calls made while shouldFail was false, in call order; a call made while
\* shouldFail is true returns the error and leaves publishedOrders as it was; a call
\* made while it is false returns nil and appends exactly its order.
C29_MockRecordsAcceptedOrders ==
    /\ mock.publishedOrders = AcceptedOrders(mock.calls)
    /\ \A i \in DOMAIN mock.calls :
          mock.calls[i].result = IF mock.calls[i].shouldFail THEN Errorf(ErrMock, "") ELSE NilError
    /\ Len(mock.publishedOrders) <= Len(mock.calls)

C29_Witness ==
    /\ Len(mock.calls) = 3
    /\ ~mock.calls[1].shouldFail /\ mock.calls[2].shouldFail /\ ~mock.calls[3].shouldFail
    /\ mock.publishedOrders = << Order1, OrderBadUTF8 >>
    /\ mock.calls[2].result = Errorf(ErrMock, "")
\* what a returned call was given and met: its event, its context, whether the
\* producer took its message, and the acknowledgment it read
Met(c) ==
    [order |-> call[c].order, ctx |-> call[c].ctx, sends |-> call[c].sends,
     reads |-> call[c].reads, kind |-> call[c].ack.kind, err |-> call[c].ack.Err]

\* C25: the result of a call and the payload it queued are determined by the event,
\* the context and the transport alone: two returned calls that were given the same
\* event and met the same context and transport behaviour have the same result and
\* the same topic, key and value, whether their adapter's hooks (span, trace
\* headers, logging) do something or nothing.
C25_HooksDoNotAffectOutcome ==
    \A c, d \in Callers :
        (Done(c) /\ Done(d) /\ Met(c) = Met(d))
            => /\ call[c].result = call[d].result
               /\ call[c].msg.Topic = call[d].msg.Topic
               /\ call[c].msg.Key = call[d].msg.Key
               /\ call[c].msg.Value = call[d].msg.Value

C25_Witness ==
    \E c, d \in Callers :
        /\ Done(c) /\ call[c].adapter = "kafka"
        /\ Done(d) /\ call[d].adapter = "kafkaQuiet"
        /\ Met(c) = Met(d) /\ call[c].sends = 1 /\ call[c].reads = 1
        /\ call[c].span.state = "ended" /\ call[d].span.state = "noop"
        /\ call[c].log # {} /\ call[d].log = {}
        /\ call[c].msg.Headers # call[d].msg.Headers
        /\ call[c].result = call[d].result
\* the log entries of the messages whose records were committed
PersistedEntries == {i \in DOMAIN consumerLog : consumerLog[i].outcome = "persisted"}

\* C21: the database holds whole units only: every unit is the order header, all
\* line items and the shipping record of one message logged as persisted, one unit
\* per such message; the step that ends in a persistence failure leaves the
\* database as it was, and leaves the topic and the offset alone (the message is
\* not put back and not taken again).
C21_PersistenceIsAtomic ==
    /\ [](/\ Len(db) = Cardinality(PersistedEntries)
          /\ \A k \in DOMAIN db :
                \E i \in PersistedEntries : db[k] = Records(Unmarshal(topicLog[i].Value).order))
    /\ [][/\ (/\ Len(consumerLog') = Len(consumerLog) + 1
              /\ consumerLog'[Len(consumerLog')].outcome = "persist failed")
                 => /\ db' = db
                    /\ topicLog' = topicLog
                    /\ offset' = offset
                    /\ current' = NoMsg
                    /\ dispatcher' = "Listening"
          /\ offset' >= offset
          /\ \A i \in DOMAIN topicLog : i \in DOMAIN topicLog' /\ topicLog'[i] = topicLog[i]]_vars

C21_Witness ==
    /\ Len(consumerLog) = 2
    /\ consumerLog[1].outcome = "persist failed"
    /\ consumerLog[2].outcome = "persisted"
    /\ topicLog[1].Value = Marshal(Order1).bytes
    /\ db = << Records(SampleOrder) >>
    /\ Len(db[1].orderItems) = 1

\* C22: without a persistence backend a message that decodes is logged as received
\* and not stored: no error is logged for it, nothing is ever written, and the
\* dispatcher goes back to Listening.
C22_UnconfiguredBackendSkipsPersistence ==
    /\ [](dbContext = "nil"
             => /\ db = <<>>
                /\ \A i \in DOMAIN consumerLog :
                      /\ consumerLog[i].outcome # "persist failed"
                      /\ Unmarshal(topicLog[i].Value).err = ""
                            /\ ~MissingRequiredField(Unmarshal(topicLog[i].Value).order)
                         => consumerLog[i] = LogEntry(i, "not stored", ""))
    /\ [][(dbContext = "nil" /\ dispatcher = "Processing" /\ dispatcher' # "Processing")
              => dispatcher' = "Listening" /\ db' = db]_vars

C22_Witness ==
    /\ dbContext = "nil"
    /\ Len(consumerLog) = 2
    /\ topicLog[1].Value = Marshal(SampleOrder).bytes
    /\ consumerLog[1] = LogEntry(1, "not stored", "")
    /\ consumerLog[2] = LogEntry(2, "not stored", "")
    /\ dispatcher = "Listening"
    /\ db = <<>>

\* C23: the dispatcher holds at most one message: it takes a message only when it
\* holds none, and the message it takes is the next one of the topic; a write to
\* the database is for the message held and ends its processing; the log follows
\* the topic's order, one entry per message.
C23_OneMessageInFlightInOrder ==
    /\ []((dispatcher = "Processing") <=> (current # NoMsg))
    /\ [](\A i \in DOMAIN consumerLog : consumerLog[i].offset = i)
    /\ [][/\ (current' # current /\ current' # NoMsg)
                 => /\ current = NoMsg
                    /\ dispatcher = "Listening"
                    /\ offset' = offset + 1
                    /\ current' = topicLog[offset + 1]
          /\ db' # db
                 => /\ current # NoMsg /\ current' = NoMsg
                    /\ db' = Append(db, Records(Unmarshal(current.Value).order))
          /\ consumerLog' # consumerLog
                 => /\ current # NoMsg /\ current' = NoMsg
                    /\ Len(consumerLog') = Len(consumerLog) + 1
                    /\ consumerLog'[Len(consumerLog')].offset = offset]_vars

C23_Witness ==
    /\ dbContext = "configured"
    /\ Len(topicLog) = 3
    /\ topicLog[1].Value = Marshal(Order1).bytes
    /\ topicLog[2].Value = Marshal(SampleOrder).bytes
    /\ offset = 2 /\ dispatcher = "Listening"
    /\ db = << Records(Order1), Records(SampleOrder) >>
\* the call of caller c whose message is the one at offset i of the topic
PublishedAt(c, i) == call[c].msg # NoMsg /\ topicLog[i].id = call[c].msg.id

\* the dispatcher has finished the message of the n-th call, made by caller c
Consumed(c, n) ==
    \E i \in DOMAIN consumerLog : i \in DOMAIN topicLog /\ topicLog[i].id = <<c, n>>

\* C24: end to end over a transport that acknowledges what it accepts: a call whose
\* context is live when it returns after handing its message to the producer
\* returns nil; every message handed to the producer is eventually consumed; what
\* the dispatcher decodes is the published event; persistence is invoked once per
\* message, and the records it stores are those of the published event.
C24_EndToEnd ==
    /\ [][\A c \in Callers :
             (Returns(c) /\ call[c].sends = 1 /\ call[c].ctx = "active")
                 => call'[c].result = NilError]_vars
    /\ \A c \in Callers : \A n \in 1..MaxCalls :
          (call[c].n = n /\ call[c].sends = 1) ~> Consumed(c, n)
    /\ [](/\ \A i \in DOMAIN consumerLog :
                /\ consumerLog[i].offset = i
                /\ consumerLog[i].outcome \in {"persisted", "persist failed"}
          /\ Len(db) = Cardinality(PersistedEntries)
          /\ \A c \in Callers : \A i \in DOMAIN topicLog :
                PublishedAt(c, i)
                    => /\ Decodings[topicLog[i].Value] = [order |-> call[c].order, err |-> ""]
                       /\ (i \in PersistedEntries
                              => \E k \in DOMAIN db : db[k] = Records(call[c].order)))

C24_Witness ==
    /\ Done("c1") /\ call["c1"].result = NilError /\ call["c1"].order = SampleOrder
    /\ Len(topicLog) = 1 /\ PublishedAt("c1", 1)
    /\ consumerLog = << LogEntry(1, "persisted", "") >>
    /\ db = << Records(SampleOrder) >>
    /\ dispatcher = "Listening"
====
